---- MODULE Spec2Model ----
(***************************************************************************)
(* Speaker attribution core of the meeting transcription service:          *)
(*   modules/diarizer.py  merge_transcript_with_diarization,               *)
(*                        find_speaker_at_time, refine_speaker_boundaries  *)
(*   modules/utils.py     format_timestamp_ms                              *)
(*   app.py               process_meeting_file                             *)
(*                                                                         *)
(* Times are whole milliseconds; the source holds a time of t ms as the    *)
(* double nearest to t/1000, and where its float arithmetic differs from   *)
(* the integer one (format_timestamp_ms) the doubles are followed bit by   *)
(* bit.  Probabilities are in thousandths.                                 *)
(*                                                                         *)
(* Python objects that the code shares by reference are kept in two heaps: *)
(* `lists` (the `words` list objects) and `dicts` (the merged-segment dict *)
(* objects).  A Python list of segments is a sequence of dict ids, and a   *)
(* dict's `words` field is a list id, so aliasing is visible.              *)
(***************************************************************************)
EXTENDS Integers, Sequences, FiniteSets, TLC

VARIABLES
    transcript,      \* transcript_data['segments'] handed over by the ASR
    diarization,     \* diarization_data, the diarizer's output
    lists,           \* heap of Python list objects (the words lists)
    dicts,           \* heap of merged-segment dict objects
    merged,          \* list returned by merge_transcript_with_diarization
    refined,         \* list returned by the last refine_speaker_boundaries
    min_gap,         \* min_segment_duration of the refine calls (default 0.5 s)
    call,            \* the last refine call: argument, values before/after
    pc,              \* position of the caller
    speaker_mapping, \* process_meeting_file: speaker_mapping
    saved,           \* process_meeting_file: content of transcript.json
    steps,           \* process_meeting_file: pipeline steps executed so far
    dcall,           \* diarize_audio_file: arguments and environment of the call
    dpc,             \* diarize_audio_file: position within the call
    ran,             \* diarize_audio_file: backends run so far, with arguments
    clust,           \* diarize_fallback: retained intervals and cluster count
    outcome,         \* diarize_audio_file: what the call returned or raised
    sources,         \* process_meeting_file: what the participant sources hold
    ft,              \* format_timestamp_ms: the time passed, in ms
    stamp            \* format_timestamp_ms: the string returned

\* The variables of the fusion, refinement and pipeline runs.
avars == <<transcript, diarization, lists, dicts, merged, refined, min_gap,
           call, pc, speaker_mapping, saved, steps>>

\* The variables of a diarize_audio_file call.
dvars == <<dcall, dpc, ran, clust, outcome>>

\* The variables of a format_timestamp_ms call.
fvars == <<ft, stamp>>

vars == <<transcript, diarization, lists, dicts, merged, refined, min_gap,
          call, pc, speaker_mapping, saved, steps, dcall, dpc, ran, clust,
          outcome, sources, ft, stamp>>

---------------------------------------------------------------------------
\* Bounds of the model.
MaxSegs == 3        \* transcript segments per run
MaxDiar == 2        \* diarization segments per run
MaxNames == 2       \* names a participant source returns

\* A speaker mapping is a function from labels to names; {} and None (both
\* false in the conditions that test it) are the function with no entry.
EmptyMapping == [l \in {} |-> ""]

\* Input values (milliseconds).  A transcript segment spans one of
\* TranscriptSpans: back-to-back, overlapping, nested and zero-length spans,
\* and pairs 300 ms apart.
TranscriptSpans == { <<0, 700>>, <<700, 1000>>, <<700, 1300>>,
                     <<1000, 1300>>, <<1300, 1300>> }
DiarTimes == {0, 1000, 2000}
Gaps == {200, 300, 500}
SpeakerLabels == {"SPEAKER_0", "SPEAKER_1"}
NoneVal == "None"

Max(a, b) == IF a > b THEN a ELSE b
Min(a, b) == IF a < b THEN a ELSE b

---------------------------------------------------------------------------
\* utils.py

Pad2(n) == IF n < 10 THEN "0" \o ToString(n) ELSE ToString(n)
Pad3(n) == IF n < 10 THEN "00" \o ToString(n)
           ELSE IF n < 100 THEN "0" \o ToString(n) ELSE ToString(n)

\* floor(log2(num / den)), for positive num and den.
RECURSIVE FloorLog2(_, _)
FloorLog2(num, den) ==
    IF num >= 2 * den THEN FloorLog2(num, 2 * den) + 1
    ELSE IF num < den THEN FloorLog2(2 * num, den) - 1
    ELSE 0

RECURSIVE Pow2(_)
Pow2(k) == IF k = 0 THEN 1 ELSE 2 * Pow2(k - 1)

\* With t * 2^p = 1000 * Q + R: the pair <<R, Q % 2>>, from <<t % 1000,
\* (t \div 1000) % 2>> by p doublings, taken 20 or 4 at a time (2^20 and
\* 2^4 are even, so the new Q's parity is that of the quotient).
RECURSIVE Scale(_, _, _)
Scale(r, odd, p) ==
    IF p = 0 THEN <<r, odd>>
    ELSE IF p >= 20
    THEN Scale((1048576 * r) % 1000, ((1048576 * r) \div 1000) % 2, p - 20)
    ELSE IF p >= 4
    THEN Scale((16 * r) % 1000, ((16 * r) \div 1000) % 2, p - 4)
    ELSE Scale((2 * r) % 1000, (2 * r) \div 1000, p - 1)

\* int((seconds % 1) * 1000), seconds being the double nearest to ms/1000.
\* The double has 52 - E fraction bits, E = floor(log2(seconds)); it is
\* below ms/1000 by R * 2^-(52 - E) / 1000 when the division rounds down.
\* seconds % 1 is exact; the product with 1000 is then R * 2^-(52 - E)
\* below the whole number f = ms % 1000 and rounds to f (to nearest, ties
\* to even) only when that is at most half the spacing of doubles below f;
\* otherwise the product is less than f and int() gives f - 1.
Milliseconds(ms) ==
    LET f == ms % 1000
        E == FloorLog2(ms, 1000)
        qr == Scale(f, (ms \div 1000) % 2, 52 - E)
        R == qr[1]
        down == R < 500 \/ (R = 500 /\ qr[2] = 0)
        e == FloorLog2(f, 1)
        k == IF f = Pow2(e) THEN e - E - 2 ELSE e - E - 1
    IN  IF f = 0 THEN 0
        ELSE IF ~down \/ R = 0 THEN f
        ELSE IF k >= 10 \/ (k >= 0 /\ R <= Pow2(k)) THEN f
        ELSE f - 1

\* seconds // 3600, (seconds % 3600) // 60 and seconds % 60 are exact: a
\* time that is not a whole second is 0.001 s or more from one.
format_timestamp_ms(ms) ==
    LET hours == ms \div 3600000
        minutes == (ms % 3600000) \div 60000
        secs == (ms % 60000) \div 1000
        milliseconds == Milliseconds(ms)
    IN  Pad2(hours) \o ":" \o Pad2(minutes) \o ":" \o Pad2(secs)
            \o "." \o Pad3(milliseconds)

---------------------------------------------------------------------------
\* The inputs: what the ASR and the diarizer hand over.

TextOf(i) == "t" \o ToString(i)
WordsOf(i) == << "w" \o ToString(i) >>
\* no_speech_prob of segment i: << >> when the key is absent, else <<p>>.
NoSpeechProbOf(i) == IF i = 1 THEN << >> ELSE << 250 * (i - 1) >>

\* Segment i of a transcript; its words list is the list object with id i.
TranscriptSegment(i, span) ==
    [start |-> span[1], end |-> span[2], text |-> TextOf(i), words |-> i,
     no_speech_prob |-> NoSpeechProbOf(i)]

\* The ASR emits its segments in order of start time.
TranscriptsOver(spans) ==
    UNION { { [i \in 1..n |-> TranscriptSegment(i, sp[i])] :
                sp \in {f \in [1..n -> spans] :
                          \A i \in 1..n : i > 1 => f[i-1][1] <= f[i][1]} }
            : n \in 0..MaxSegs }

Transcripts == TranscriptsOver(TranscriptSpans)

\* The transcripts of the pipeline runs: the name resolution does not read
\* the times, so fewer spans are drawn there.
AppSpans == { <<0, 700>>, <<1000, 1300>> }
AppTranscripts == TranscriptsOver(AppSpans)

DiarizationSegment(s, e, spk) ==
    [start |-> s, end |-> e, speaker |-> spk, duration |-> e - s]

DiarizationSegments ==
    {DiarizationSegment(s, e, spk) :
        s \in DiarTimes, e \in DiarTimes, spk \in SpeakerLabels}

Diarizations ==
    UNION { [1..n -> {d \in DiarizationSegments : d.start < d.end}]
            : n \in 0..MaxDiar }

---------------------------------------------------------------------------
\* diarizer.py: fusion

\* Variant of FindLoop: a later segment with an equal overlap replaces the
\* earlier one (>= in place of >).
RECURSIVE FindLoopLastMax(_, _, _, _, _, _)
FindLoopLastMax(start_time, end_time, diarization_data, i, max_overlap, best_speaker) ==
    IF i > Len(diarization_data) THEN best_speaker
    ELSE LET segment == diarization_data[i]
             overlap_start == Max(start_time, segment.start)
             overlap_end == Min(end_time, segment.end)
             overlap == Max(0, overlap_end - overlap_start)
         IN  IF overlap >= max_overlap
             THEN FindLoopLastMax(start_time, end_time, diarization_data,
                                  i + 1, overlap, segment.speaker)
             ELSE FindLoopLastMax(start_time, end_time, diarization_data,
                                  i + 1, max_overlap, best_speaker)

RECURSIVE FindLoop(_, _, _, _, _, _)
FindLoop(start_time, end_time, diarization_data, i, max_overlap, best_speaker) ==
    IF i > Len(diarization_data) THEN best_speaker
    ELSE LET segment == diarization_data[i]
             overlap_start == Max(start_time, segment.start)
             overlap_end == Min(end_time, segment.end)
             overlap == Max(0, overlap_end - overlap_start)
         IN  IF overlap > max_overlap
             THEN FindLoop(start_time, end_time, diarization_data, i + 1,
                           overlap, segment.speaker)
             ELSE FindLoop(start_time, end_time, diarization_data, i + 1,
                           max_overlap, best_speaker)

\* Variant of find_speaker_at_time: no default label for an empty
\* diarization.
find_speaker_no_default(start_time, end_time, diarization_data) ==
    IF Len(diarization_data) = 0 THEN "UNKNOWN"
    ELSE FindLoop(start_time, end_time, diarization_data, 1, 0,
                  diarization_data[1].speaker)

\* Variant of find_speaker_at_time: the search starts from SPEAKER_0.
find_speaker_from_zero(start_time, end_time, diarization_data) == FindLoop(start_time, end_time, diarization_data, 1, 0, "SPEAKER_0")

find_speaker_at_time(start_time, end_time, diarization_data) ==
    IF Len(diarization_data) = 0 THEN "SPEAKER_0"
    ELSE FindLoop(start_time, end_time, diarization_data, 1, 0,
                  diarization_data[1].speaker)

\* Variant of MergedDict: the confidence is no_speech_prob itself.
MergedDictRawProb(segment, diarization_data) ==
    [start |-> format_timestamp_ms(segment.start),
     end |-> format_timestamp_ms(segment.end),
     start_seconds |-> segment.start,
     end_seconds |-> segment.end,
     speaker |-> find_speaker_at_time(segment.start, segment.end,
                                      diarization_data),
     text |-> segment.text,
     words |-> segment.words,
     confidence |-> IF segment.no_speech_prob = << >> THEN 0
                    ELSE segment.no_speech_prob[1]]

\* The dict built for one transcript segment; `words` is the transcript
\* segment's own list object (segment.get('words', []) returns it, and the
\* transcriber always sets the key).
MergedDict(segment, diarization_data) ==
    [start |-> format_timestamp_ms(segment.start),
     end |-> format_timestamp_ms(segment.end),
     start_seconds |-> segment.start,
     end_seconds |-> segment.end,
     speaker |-> find_speaker_at_time(segment.start, segment.end,
                                      diarization_data),
     text |-> segment.text,
     words |-> segment.words,
     confidence |-> 1000 - (IF segment.no_speech_prob = << >> THEN 0
                            ELSE segment.no_speech_prob[1])]

\* Variant of merge_transcript_with_diarization: zero-length transcript
\* segments are skipped.
merge_skipping_empty(transcript_data, diarization_data) ==
    LET keep == {i \in 1..Len(transcript_data) :
                    transcript_data[i].start < transcript_data[i].end}
        nth(k) == CHOOSE i \in keep : Cardinality({j \in keep : j <= i}) = k
    IN  [k \in 1..Cardinality(keep) |->
            MergedDict(transcript_data[nth(k)], diarization_data)]

\* The sequence of dicts the loop appends, in order.
merge_transcript_with_diarization(transcript_data, diarization_data) ==
    [i \in 1..Len(transcript_data) |->
        MergedDict(transcript_data[i], diarization_data)]

---------------------------------------------------------------------------
\* diarizer.py: boundary refinement

\* Variant of MergeCond: a gap equal to min_segment_duration merges too.
MergeCondLe(segment, last_segment, gap) ==
    /\ segment.speaker = last_segment.speaker
    /\ segment.start_seconds - last_segment.end_seconds <= gap

MergeCond(segment, last_segment, gap) ==
    /\ segment.speaker = last_segment.speaker
    /\ segment.start_seconds - last_segment.end_seconds < gap

\* Variant of RefineLoop: the append is not in the else branch, so a merged
\* segment is appended as well.
RECURSIVE RefineLoopAlwaysAppend(_, _, _, _, _)
RefineLoopAlwaysAppend(h, ids, i, out, gap) ==
    IF i > Len(ids) THEN [heap |-> h, refined |-> out]
    ELSE LET sid == ids[i]
             lid == out[Len(out)]
             segment == h.dicts[sid]
             last_segment == h.dicts[lid]
         IN  IF MergeCond(segment, last_segment, gap)
             THEN LET d1 == [h.dicts EXCEPT ![lid] =
                               [@ EXCEPT !.end = segment.end,
                                         !.end_seconds = segment.end_seconds,
                                         !.text = @ \o " " \o segment.text]]
                      l1 == [h.lists EXCEPT ![last_segment.words] =
                               @ \o h.lists[segment.words]]
                  IN  RefineLoopAlwaysAppend([dicts |-> d1, lists |-> l1],
                                             ids, i + 1, Append(out, sid), gap)
             ELSE RefineLoopAlwaysAppend(h, ids, i + 1, Append(out, sid), gap)

\* Variant of RefineLoop: the texts are joined without the separating space.
RECURSIVE RefineLoopNoSpace(_, _, _, _, _)
RefineLoopNoSpace(h, ids, i, out, gap) ==
    IF i > Len(ids) THEN [heap |-> h, refined |-> out]
    ELSE LET sid == ids[i]
             lid == out[Len(out)]
             segment == h.dicts[sid]
             last_segment == h.dicts[lid]
         IN  IF MergeCond(segment, last_segment, gap)
             THEN LET d1 == [h.dicts EXCEPT ![lid] =
                               [@ EXCEPT !.end = segment.end,
                                         !.end_seconds = segment.end_seconds,
                                         !.text = @ \o segment.text]]
                      l1 == [h.lists EXCEPT ![last_segment.words] =
                               @ \o h.lists[segment.words]]
                  IN  RefineLoopNoSpace([dicts |-> d1, lists |-> l1], ids,
                                        i + 1, out, gap)
             ELSE RefineLoopNoSpace(h, ids, i + 1, Append(out, sid), gap)

\* Variant of RefineLoop: a merge leaves the string `end` as it was.
RECURSIVE RefineLoopKeepEndString(_, _, _, _, _)
RefineLoopKeepEndString(h, ids, i, out, gap) ==
    IF i > Len(ids) THEN [heap |-> h, refined |-> out]
    ELSE LET sid == ids[i]
             lid == out[Len(out)]
             segment == h.dicts[sid]
             last_segment == h.dicts[lid]
         IN  IF MergeCond(segment, last_segment, gap)
             THEN LET d1 == [h.dicts EXCEPT ![lid] =
                               [@ EXCEPT !.end_seconds = segment.end_seconds,
                                         !.text = @ \o " " \o segment.text]]
                      l1 == [h.lists EXCEPT ![last_segment.words] =
                               @ \o h.lists[segment.words]]
                  IN  RefineLoopKeepEndString([dicts |-> d1, lists |-> l1],
                                              ids, i + 1, out, gap)
             ELSE RefineLoopKeepEndString(h, ids, i + 1, Append(out, sid),
                                          gap)

\* The for loop of refine_speaker_boundaries over merged_segments[i..];
\* h is the heap, ids the argument list, out the list `refined`.
RECURSIVE RefineLoop(_, _, _, _, _)
RefineLoop(h, ids, i, out, gap) ==
    IF i > Len(ids) THEN [heap |-> h, refined |-> out]
    ELSE LET sid == ids[i]
             lid == out[Len(out)]
             segment == h.dicts[sid]
             last_segment == h.dicts[lid]
         IN  IF MergeCond(segment, last_segment, gap)
             THEN LET d1 == [h.dicts EXCEPT ![lid] =
                               [@ EXCEPT !.end = segment.end,
                                         !.end_seconds = segment.end_seconds,
                                         !.text = @ \o " " \o segment.text]]
                      l1 == [h.lists EXCEPT ![last_segment.words] =
                               @ \o h.lists[segment.words]]
                  IN  RefineLoop([dicts |-> d1, lists |-> l1], ids, i + 1,
                                 out, gap)
             ELSE RefineLoop(h, ids, i + 1, Append(out, sid), gap)

refine_speaker_boundaries(h, merged_segments, min_segment_duration) ==
    IF Len(merged_segments) = 0 THEN [heap |-> h, refined |-> << >>]
    ELSE RefineLoop(h, merged_segments, 2, << merged_segments[1] >>,
                    min_segment_duration)

\* The values a list of segments holds at a moment (words by value).
Deref(ids, d, l) ==
    [i \in 1..Len(ids) |-> [d[ids[i]] EXCEPT !.words = l[@]]]

---------------------------------------------------------------------------
\* The state of diarize_audio_file before it is called.

NoArgs == [method |-> "none", num_speakers |-> << >>, audio_path |-> "none",
           duration |-> 0, readable |-> TRUE, available |-> FALSE,
           token |-> FALSE]
NoClust == [ranges |-> << >>, segments |-> << >>, features |-> 0,
            requested |-> 0, k |-> 0, invoked |-> FALSE]
NoOutcome == [status |-> "none", segments |-> << >>, path |-> "none"]

\* The state of the participant sources and of format_timestamp_ms before
\* they are used.
NoSources == [use_bot_data |-> TRUE, names |-> << 0, 0, 0, 0, 0 >>]

NoOtherCall ==
    /\ sources = NoSources
    /\ ft = 0
    /\ stamp = ""

NoDiarizeCall ==
    /\ dcall = NoArgs
    /\ dpc = "idle"
    /\ ran = << >>
    /\ clust = NoClust
    /\ outcome = NoOutcome

---------------------------------------------------------------------------
\* A caller of the diarizer module: fuse once, then refine.

NoCall == [arg |-> NoneVal, before |-> << >>, after |-> << >>,
           arg_after |-> << >>, first |-> << >>]

Init ==
    /\ transcript \in Transcripts
    /\ diarization \in Diarizations
    /\ lists = [i \in 1..Len(transcript) |-> WordsOf(i)]
    /\ dicts = << >>
    /\ merged = << >>
    /\ refined = << >>
    /\ min_gap = 500
    /\ call = NoCall
    /\ pc = "start"
    /\ speaker_mapping = EmptyMapping
    /\ saved = << >>
    /\ steps = << >>
    /\ NoDiarizeCall
    /\ NoOtherCall

\* merged = merge_transcript_with_diarization(transcript_data, diarization_data)
Merge ==
    /\ pc = "start"
    /\ LET new == merge_transcript_with_diarization(transcript, diarization)
       IN  /\ dicts' = dicts \o new
           /\ merged' = [i \in 1..Len(new) |-> Len(dicts) + i]
    /\ pc' = "merged"
    /\ UNCHANGED <<transcript, diarization, lists, refined, min_gap, call,
                   speaker_mapping, saved, steps>>
    /\ UNCHANGED dvars
    /\ UNCHANGED sources
    /\ UNCHANGED fvars

\* refined = refine_speaker_boundaries(arg, gap)
DoRefine(which, gap) ==
    LET arg == IF which = "merged" THEN merged ELSE refined
        r == refine_speaker_boundaries([dicts |-> dicts, lists |-> lists],
                                       arg, gap)
    IN  /\ dicts' = r.heap.dicts
        /\ lists' = r.heap.lists
        /\ refined' = r.refined
        /\ call' = [arg |-> which,
                    before |-> Deref(arg, dicts, lists),
                    after |-> Deref(r.refined, r.heap.dicts, r.heap.lists),
                    arg_after |-> Deref(arg, r.heap.dicts, r.heap.lists),
                    first |-> IF pc = "merged"
                              THEN Deref(r.refined, r.heap.dicts, r.heap.lists)
                              ELSE call.first]

\* The first refine call is on the fused list, with any gap.
Refine ==
    /\ pc = "merged"
    /\ \E g \in Gaps :
          /\ min_gap' = g
          /\ DoRefine("merged", g)
    /\ pc' = "refined"
    /\ UNCHANGED <<transcript, diarization, merged, speaker_mapping,
                   saved, steps>>
    /\ UNCHANGED dvars
    /\ UNCHANGED sources
    /\ UNCHANGED fvars

\* A second call with the same gap, on the same fused list or on the result
\* of the first call.
RefineAgain ==
    /\ pc = "refined"
    /\ \E which \in {"merged", "refined"} : DoRefine(which, min_gap)
    /\ pc' = "refined_again"
    /\ UNCHANGED <<transcript, diarization, merged, min_gap,
                   speaker_mapping, saved, steps>>
    /\ UNCHANGED dvars
    /\ UNCHANGED sources
    /\ UNCHANGED fvars

Next == Merge \/ Refine \/ RefineAgain

Spec == Init /\ [][Next]_vars

---------------------------------------------------------------------------
\* platform_integrations.py: the participant sources.  A source that finds k
\* participants returns {SPEAKER_0: name, ..., SPEAKER_<k-1>: name}; one that
\* finds none returns None (or {}).

Label(i) == "SPEAKER_" \o ToString(i)
Name(src, i) == src \o "_" \o ToString(i)

SourceMapping(src, k) ==
    [l \in {Label(i) : i \in 0..(k - 1)} |->
        Name(src, CHOOSE i \in 0..(k - 1) : Label(i) = l)]

\* cal, zoom, teams: participants each API finds (0: none, or the API is not
\* configured or fails); manual: names in the participants string.
get_meeting_participants(cal, zoom, teams, manual) ==
    IF cal > 0
    THEN [mapping |-> SourceMapping("calendar", cal),
          queried |-> << "query_calendar" >>]
    ELSE IF zoom > 0
    THEN [mapping |-> SourceMapping("zoom", zoom),
          queried |-> << "query_calendar", "query_zoom" >>]
    ELSE IF teams > 0
    THEN [mapping |-> SourceMapping("teams", teams),
          queried |-> << "query_calendar", "query_zoom", "query_teams" >>]
    ELSE [mapping |-> IF manual > 0 THEN SourceMapping("manual", manual)
                      ELSE EmptyMapping,
          queried |-> << "query_calendar", "query_zoom", "query_teams",
                         "parse_participants" >>]

---------------------------------------------------------------------------
\* app.py: process_meeting_file, one action per step of the pipeline.  The
\* steps after the transcript is written (summary, notes, PDF, storage,
\* database row) do not touch the transcript and are not modelled.

InitApp ==
    /\ transcript = << >>
    /\ diarization = << >>
    /\ lists = << >>
    /\ dicts = << >>
    /\ merged = << >>
    /\ refined = << >>
    /\ min_gap = 500
    /\ call = NoCall
    /\ pc = "transcribe"
    /\ speaker_mapping = EmptyMapping
    /\ saved = << >>
    /\ steps = << >>
    /\ NoDiarizeCall
    /\ NoOtherCall

\* transcript_data = transcribe_audio_file(...)
PM_Transcribe ==
    /\ pc = "transcribe"
    /\ transcript' \in AppTranscripts
    /\ lists' = [i \in 1..Len(transcript') |-> WordsOf(i)]
    /\ steps' = Append(steps, "transcription")
    /\ pc' = "diarize"
    /\ UNCHANGED <<diarization, dicts, merged, refined, min_gap, call,
                   speaker_mapping, saved>>
    /\ UNCHANGED dvars
    /\ UNCHANGED sources
    /\ UNCHANGED fvars

\* transcribe_audio_file raises (the audio cannot be read): the except
\* clause reports the error and the function returns None.
PM_TranscribeFails ==
    /\ pc = "transcribe"
    /\ pc' = "failed"
    /\ UNCHANGED <<transcript, diarization, lists, dicts, merged, refined,
                   min_gap, call, speaker_mapping, saved, steps>>
    /\ UNCHANGED dvars
    /\ UNCHANGED sources
    /\ UNCHANGED fvars

\* What diarize_audio_file returns to the pipeline.  The fallback labels its
\* segments SPEAKER_0 .. SPEAKER_<k-1>, each label used; the pyannote backend
\* prefixes pyannote's own label, and of its runs those with one turn are
\* drawn (the name resolution reads the labels only).
FallbackDiarizations ==
    {d \in Diarizations :
        {d[i].speaker : i \in 1..Len(d)}
            = {Label(j) : j \in 0..(Cardinality({d[i].speaker :
                                                    i \in 1..Len(d)}) - 1)}}
PyannoteDiarizations ==
    {<< DiarizationSegment(t[1], t[2], "SPEAKER_" \o "SPEAKER_00") >> :
        t \in {u \in DiarTimes \X DiarTimes : u[1] < u[2]}}
AppDiarizations == FallbackDiarizations \cup PyannoteDiarizations

\* diarization_data = diarize_audio_file(...)
PM_Diarize ==
    /\ pc = "diarize"
    /\ diarization' \in AppDiarizations
    /\ steps' = Append(steps, "diarization")
    /\ pc' = "merge"
    /\ UNCHANGED <<transcript, lists, dicts, merged, refined, min_gap, call,
                   speaker_mapping, saved>>
    /\ UNCHANGED dvars
    /\ UNCHANGED sources
    /\ UNCHANGED fvars

\* unique_speakers = len(set(seg['speaker'] for seg in diarization_data))
unique_speakers == Cardinality({diarization[i].speaker :
                                   i \in 1..Len(diarization)})

\* merged_transcript = merge_transcript_with_diarization(...)
PM_Merge ==
    /\ pc = "merge"
    /\ LET new == merge_transcript_with_diarization(transcript, diarization)
       IN  /\ dicts' = dicts \o new
           /\ merged' = [i \in 1..Len(new) |-> Len(dicts) + i]
    /\ steps' = Append(steps, "fusion")
    /\ pc' = "resolve"
    /\ UNCHANGED <<transcript, diarization, lists, refined, min_gap, call,
                   speaker_mapping, saved>>
    /\ UNCHANGED dvars
    /\ UNCHANGED sources
    /\ UNCHANGED fvars

\* What the participant sources hold in one run: the number of names of the
\* bot capture, calendar, Zoom, Teams and the participants string.  At most
\* two sources hold names, the later of them one name.
SourceOutcomes ==
    {o \in [1..5 -> 0..MaxNames] :
        /\ Cardinality({i \in 1..5 : o[i] > 0}) <= 2
        /\ \A i \in 1..5 : \A j \in 1..5 :
              (i < j /\ o[i] > 0 /\ o[j] > 0) => o[j] = 1}

\* Sources 1 and 2 of the name resolution, and the test that sends the run
\* to the manual mapping form.
PM_Resolve ==
    /\ pc = "resolve"
    /\ \E use_bot_data \in BOOLEAN : \E o \in SourceOutcomes :
          LET from_bot == IF use_bot_data /\ o[1] > 0
                          THEN SourceMapping("bot", o[1]) ELSE EmptyMapping
              platform == get_meeting_participants(o[2], o[3], o[4], o[5])
              found == IF DOMAIN from_bot = {} THEN platform.mapping
                       ELSE from_bot
              queried == (IF use_bot_data THEN << "query_bot" >> ELSE << >>)
                         \o (IF DOMAIN from_bot = {} THEN platform.queried
                             ELSE << >>)
          IN  /\ speaker_mapping' = found
              /\ sources' = [use_bot_data |-> use_bot_data, names |-> o]
              /\ steps' = steps \o queried
              /\ pc' = IF \/ DOMAIN found = {}
                          \/ Cardinality(DOMAIN found) < unique_speakers
                       THEN "manual" ELSE "apply"
    /\ UNCHANGED <<transcript, diarization, lists, dicts, merged, refined,
                   min_gap, call, saved>>
    /\ UNCHANGED dvars
    /\ UNCHANGED fvars

\* unique_speaker_labels = sorted(set(seg['speaker'] for seg in merged_transcript))
unique_speaker_labels == {dicts[merged[i]].speaker : i \in 1..Len(merged)}

\* Source 3, the manual mapping form: the mapping found so far is dropped and
\* one name is asked for each label of the merged transcript.  With a name
\* missing the function returns None; with no label at all st.columns(0)
\* raises and the except clause returns None.
PM_ManualMap ==
    /\ pc = "manual"
    /\ \/ /\ unique_speaker_labels = {}
          /\ speaker_mapping' = EmptyMapping
          /\ steps' = Append(steps, "manual_mapping")
          /\ pc' = "failed"
       \/ /\ unique_speaker_labels # {}
          /\ \E named \in SUBSET unique_speaker_labels :
                /\ speaker_mapping' = [l \in named |-> "ui_" \o l]
                /\ pc' = IF named = unique_speaker_labels THEN "apply"
                         ELSE "unmapped"
          /\ steps' = Append(steps, "manual_mapping")
    /\ UNCHANGED <<transcript, diarization, lists, dicts, merged, refined,
                   min_gap, call, saved>>
    /\ UNCHANGED dvars
    /\ UNCHANGED sources
    /\ UNCHANGED fvars

\* Variant of ApplyName: a label without an entry becomes "Unknown".
ApplyNameOrUnknown(segment, mapping) == [segment EXCEPT !.speaker = IF @ \in DOMAIN mapping THEN mapping[@] ELSE "Unknown"]

\* if segment['speaker'] in speaker_mapping:
\*     segment['speaker'] = speaker_mapping[segment['speaker']]
ApplyName(segment, mapping) ==
    IF segment.speaker \in DOMAIN mapping
    THEN [segment EXCEPT !.speaker = mapping[segment.speaker]]
    ELSE segment

\* for segment in merged_transcript: substitute the name when the label has
\* an entry.
PM_Apply ==
    /\ pc = "apply"
    /\ dicts' = [id \in 1..Len(dicts) |->
                   IF \E i \in 1..Len(merged) : merged[i] = id
                   THEN ApplyName(dicts[id], speaker_mapping)
                   ELSE dicts[id]]
    /\ steps' = Append(steps, "substitution")
    /\ pc' = "save"
    /\ UNCHANGED <<transcript, diarization, lists, merged, refined, min_gap,
                   call, speaker_mapping, saved>>
    /\ UNCHANGED dvars
    /\ UNCHANGED sources
    /\ UNCHANGED fvars

\* json.dump(merged_transcript, f): transcript.json
PM_Save ==
    /\ pc = "save"
    /\ saved' = Deref(merged, dicts, lists)
    /\ steps' = Append(steps, "persist")
    /\ pc' = "done"
    /\ UNCHANGED <<transcript, diarization, lists, dicts, merged, refined,
                   min_gap, call, speaker_mapping>>
    /\ UNCHANGED dvars
    /\ UNCHANGED sources
    /\ UNCHANGED fvars

NextApp ==
    \/ PM_Transcribe
    \/ PM_TranscribeFails
    \/ PM_Diarize
    \/ PM_Merge
    \/ PM_Resolve
    \/ PM_ManualMap
    \/ PM_Apply
    \/ PM_Save

SpecApp == InitApp /\ [][NextApp]_vars

---------------------------------------------------------------------------
\* diarizer.py: diarize_audio_file, diarize_with_pyannote, diarize_fallback.

MaxRanges == 3          \* non-silent stretches of a short recording

MinSilenceLen == 500    \* detect_nonsilent(min_silence_len=500), ms
SampleRate == 16000     \* librosa.load(audio_path, sr=16000)
DegradedEnd == 100000   \* 'end': 100 of the last-resort segment, in ms

\* The arguments of a call.  "energy" stands for a method value the
\* docstring does not list; num_speakers is << >> for None, else <<n>>.
Methods == {"auto", "pyannote", "fallback", "energy"}
NumSpeakers == { << >>, << -1 >>, << 0 >>, << 1 >>, << 2 >>, << 3 >> }
Audios == { [path |-> "a.wav", duration |-> 100000, readable |-> TRUE],
            [path |-> "b.wav", duration |-> 200000, readable |-> TRUE],
            [path |-> "c.wav", duration |-> 200000, readable |-> FALSE] }

\* What detect_nonsilent returns: stretches in time order, MinSilenceLen or
\* more apart.  A short recording has up to MaxRanges stretches of 0.2, 0.3
\* or 0.4 s; a long one has LongCounts stretches of 0.4 s.
RangeDurations == {200, 300, 400}
LongCounts == {9, 10, 19, 20, 29, 30, 31, 39, 49, 50, 60}

RECURSIVE RangeStart(_, _)
RangeStart(durs, i) ==
    IF i = 1 THEN 100
    ELSE RangeStart(durs, i - 1) + durs[i - 1] + MinSilenceLen

RangesOf(durs) ==
    [i \in 1..Len(durs) |->
        << RangeStart(durs, i), RangeStart(durs, i) + durs[i] >>]

NonsilentRanges ==
    UNION { {RangesOf(durs) : durs \in [1..n -> RangeDurations]}
            : n \in 0..MaxRanges }
    \cup {RangesOf([i \in 1..n |-> 400]) : n \in LongCounts}

\* A filter that lets every stretch longer than 0.1 s through.
LongEnoughTenth(range) == (range[2] - range[1]) * SampleRate > 100 * SampleRate

\* len(segment_audio) > sr * 0.3, with segment_audio = y[start_sample:end_sample]
LongEnough(range) ==
    (range[2] * SampleRate) \div 1000 - (range[1] * SampleRate) \div 1000
        > (SampleRate * 3) \div 10

\* The loop over nonsilent_ranges: the segments appended.
RECURSIVE RetainedUpTo(_, _)
RetainedUpTo(ranges, i) ==
    IF i = 0 THEN << >>
    ELSE IF LongEnough(ranges[i])
         THEN Append(RetainedUpTo(ranges, i - 1),
                     [start |-> ranges[i][1], end |-> ranges[i][2],
                      duration |-> ranges[i][2] - ranges[i][1]])
         ELSE RetainedUpTo(ranges, i - 1)

\* The same loop: the number of feature vectors appended.
RECURSIVE FeaturesUpTo(_, _)
FeaturesUpTo(ranges, i) ==
    IF i = 0 THEN 0
    ELSE IF LongEnough(ranges[i])
         THEN FeaturesUpTo(ranges, i - 1) + 1
         ELSE FeaturesUpTo(ranges, i - 1)

\* A guard that never takes the early return.
NoFeaturesNever(features) == FALSE

\* if not features
NoFeatures(features) == features = 0

\* A heuristic whose lower clamp is 1.
DefaultSpeakerCountFloorOne(n) == Min(5, Max(1, n \div 10))

\* num_speakers = min(5, max(2, len(segments) // 10))
DefaultSpeakerCount(n) == Min(5, Max(2, n \div 10))

RequestedSpeakers(num_speakers, n) ==
    IF num_speakers = << >> THEN DefaultSpeakerCount(n) ELSE num_speakers[1]

\* A cap that is not applied.
CapToSegmentsNone(requested, n) == requested

\* num_speakers = min(num_speakers, len(segments))
CapToSegments(requested, n) == Min(requested, n)

\* The labels AgglomerativeClustering(n_clusters=k).fit_predict returns, one
\* per feature vector: each of 0..k-1 is used.  Every labelling is drawn for
\* a short recording, one for a long recording.
Labellings(n, k) ==
    IF n <= MaxRanges
    THEN {f \in [1..n -> 0..(k - 1)] :
             \A c \in 0..(k - 1) : \E i \in 1..n : f[i] = c}
    ELSE {[i \in 1..n |-> (i - 1) % k]}

\* What the pyannote pipeline yields through itertracks: turns in order of
\* start time, labelled by pyannote.
PyannoteLabels == {"SPEAKER_00", "SPEAKER_01"}
PyannoteTurns ==
    {[start |-> s, end |-> e, speaker |-> l] :
        s \in DiarTimes, e \in DiarTimes, l \in PyannoteLabels}
PyannoteOutputs ==
    UNION { {t \in [1..n -> {u \in PyannoteTurns : u.start < u.end}] :
                \A i \in 1..n : i > 1 => t[i-1].start <= t[i].start}
            : n \in 0..MaxDiar }

\* Variant of PyannoteSegments: every segment ends where it starts.
PyannoteSegmentsInstant(turns) == [i \in 1..Len(turns) |-> DiarizationSegment(turns[i].start, turns[i].start, "SPEAKER_" \o turns[i].speaker)]

\* The loop over diarization.itertracks(yield_label=True).
PyannoteSegments(turns) ==
    [i \in 1..Len(turns) |->
        DiarizationSegment(turns[i].start, turns[i].end,
                           "SPEAKER_" \o turns[i].speaker)]

\* [{'start': 0, 'end': 100, 'speaker': 'SPEAKER_0', 'duration': 100}]
DegradedResult == << DiarizationSegment(0, DegradedEnd, "SPEAKER_0") >>

\* A selection in which 'auto' looks at the credential only.
SelectBackendTokenOnly(method, available, token) == IF method = "pyannote" \/ (method = "auto" /\ token) THEN "pyannote" ELSE "fallback"

\* Lines 48-58: the backend the call goes to.
SelectBackend(method, available, token) ==
    LET chosen == IF method = "auto"
                  THEN IF available /\ token THEN "pyannote" ELSE "fallback"
                  ELSE method
    IN  IF chosen = "pyannote" THEN "pyannote" ELSE "fallback"

\* A fallback call that drops the expected speaker count.
FallbackArgsNoCount(c) == [audio_path |-> c.audio_path, num_speakers |-> << >>]

\* The arguments diarize_fallback is called with (lines 58, 72 and 110).
FallbackArgs(c) ==
    [audio_path |-> c.audio_path, num_speakers |-> c.num_speakers]

InitDiar ==
    /\ transcript = << >>
    /\ diarization = << >>
    /\ lists = << >>
    /\ dicts = << >>
    /\ merged = << >>
    /\ refined = << >>
    /\ min_gap = 500
    /\ call = NoCall
    /\ pc = "diarizer"
    /\ speaker_mapping = EmptyMapping
    /\ saved = << >>
    /\ steps = << >>
    /\ NoDiarizeCall
    /\ NoOtherCall

\* diarize_audio_file(audio_path, num_speakers, method), up to the call of a
\* backend.  available is PYANNOTE_AVAILABLE, token is os.getenv('HF_TOKEN').
D_Call ==
    /\ dpc = "idle"
    /\ \E m \in Methods, ns \in NumSpeakers, a \in Audios,
          av \in BOOLEAN, tok \in BOOLEAN :
          /\ dcall' = [method |-> m, num_speakers |-> ns,
                       audio_path |-> a.path, duration |-> a.duration,
                       readable |-> a.readable, available |-> av,
                       token |-> tok]
          /\ dpc' = SelectBackend(m, av, tok)
    /\ UNCHANGED <<ran, clust, outcome>>
    /\ UNCHANGED avars
    /\ UNCHANGED sources
    /\ UNCHANGED fvars

\* diarize_with_pyannote: without a token the fallback is called at once;
\* with one the try block is entered.  There, Pipeline is an unbound name
\* when the import failed, loading or inference may raise, and every
\* exception leads to the fallback.
D_Pyannote ==
    /\ dpc = "pyannote"
    /\ IF ~dcall.token
       THEN /\ dpc' = "fallback"
            /\ UNCHANGED <<ran, outcome>>
       ELSE /\ ran' = Append(ran, [backend |-> "pyannote",
                                   audio_path |-> dcall.audio_path,
                                   num_speakers |-> dcall.num_speakers])
            /\ \/ /\ dpc' = "fallback"
                  /\ UNCHANGED outcome
               \/ /\ dcall.available
                  /\ dcall.readable
                  /\ \E turns \in PyannoteOutputs :
                        outcome' = [status |-> "returned",
                                    segments |-> PyannoteSegments(turns),
                                    path |-> "pyannote"]
                  /\ dpc' = "done"
    /\ UNCHANGED <<dcall, clust>>
    /\ UNCHANGED avars
    /\ UNCHANGED sources
    /\ UNCHANGED fvars

\* diarize_fallback up to the clustering: the imports, the segmentation and
\* the feature extraction.
D_FallbackSegment ==
    /\ dpc = "fallback"
    /\ ran' = Append(ran, [backend |-> "fallback",
                           audio_path |-> FallbackArgs(dcall).audio_path,
                           num_speakers |-> FallbackArgs(dcall).num_speakers])
    /\ \E pydub \in BOOLEAN, numeric \in BOOLEAN :
          IF ~pydub \/ ~numeric
          THEN /\ outcome' = [status |-> "returned",
                              segments |-> DegradedResult,
                              path |-> "degraded"]
               /\ dpc' = "done"
               /\ UNCHANGED clust
          ELSE IF ~dcall.readable
          THEN /\ outcome' = [status |-> "raised", segments |-> << >>,
                              path |-> "load"]
               /\ dpc' = "done"
               /\ UNCHANGED clust
          ELSE \E ranges \in NonsilentRanges :
                  LET segments == RetainedUpTo(ranges, Len(ranges))
                      features == FeaturesUpTo(ranges, Len(ranges))
                      requested ==
                          RequestedSpeakers(FallbackArgs(dcall).num_speakers,
                                            Len(segments))
                  IN  IF Len(ranges) = 0
                      THEN /\ outcome' = [status |-> "returned",
                                          segments |-> << >>,
                                          path |-> "no_speech"]
                           /\ dpc' = "done"
                           /\ clust' = [NoClust EXCEPT !.ranges = ranges]
                      ELSE IF NoFeatures(features)
                      THEN /\ outcome' = [status |-> "returned",
                                          segments |-> << >>,
                                          path |-> "no_features"]
                           /\ dpc' = "done"
                           /\ clust' = [NoClust EXCEPT
                                          !.ranges = ranges,
                                          !.segments = segments]
                      ELSE /\ clust' = [ranges |-> ranges,
                                        segments |-> segments,
                                        features |-> features,
                                        requested |-> requested,
                                        k |-> CapToSegments(requested,
                                                            Len(segments)),
                                        invoked |-> FALSE]
                           /\ dpc' = "cluster"
                           /\ UNCHANGED outcome
    /\ UNCHANGED dcall
    /\ UNCHANGED avars
    /\ UNCHANGED sources
    /\ UNCHANGED fvars

\* diarize_fallback from `if len(features) > 1`: the clusterer labels the
\* segments (it raises when asked for fewer than one cluster), or
\* segments[0] is SPEAKER_0 (an IndexError were the list empty).
D_FallbackCluster ==
    /\ dpc = "cluster"
    /\ IF clust.features > 1
       THEN /\ clust' = [clust EXCEPT !.invoked = TRUE]
            /\ IF clust.k < 1
               THEN outcome' = [status |-> "raised", segments |-> << >>,
                                path |-> "cluster"]
               ELSE \E labels \in Labellings(clust.features, clust.k) :
                       outcome' =
                           [status |-> "returned",
                            segments |->
                                [i \in 1..clust.features |->
                                    DiarizationSegment(
                                        clust.segments[i].start,
                                        clust.segments[i].end,
                                        "SPEAKER_" \o ToString(labels[i]))],
                            path |-> "clustered"]
       ELSE /\ outcome' =
                  IF Len(clust.segments) = 0
                  THEN [status |-> "raised", segments |-> << >>,
                        path |-> "index"]
                  ELSE [status |-> "returned",
                        segments |->
                            [i \in 1..Len(clust.segments) |->
                                DiarizationSegment(
                                    clust.segments[i].start,
                                    clust.segments[i].end,
                                    IF i = 1 THEN "SPEAKER_0" ELSE NoneVal)],
                        path |-> "single"]
            /\ UNCHANGED clust
    /\ dpc' = "done"
    /\ UNCHANGED <<dcall, ran>>
    /\ UNCHANGED avars
    /\ UNCHANGED sources
    /\ UNCHANGED fvars

NextDiar == D_Call \/ D_Pyannote \/ D_FallbackSegment \/ D_FallbackCluster

SpecDiar == InitDiar /\ [][NextDiar]_vars

---------------------------------------------------------------------------
\* A caller of format_timestamp_ms: times up to MaxMillis ms, and times
\* around the seconds, minutes and hours.
MaxMillis == 1100
FormatTimes ==
    (0..MaxMillis) \cup {59999, 60000, 61001, 3599999, 3600000, 3725125,
                          86399999, 360000000}

InitFmt ==
    /\ ft \in FormatTimes
    /\ stamp = ""
    /\ sources = NoSources
    /\ transcript = << >>
    /\ diarization = << >>
    /\ lists = << >>
    /\ dicts = << >>
    /\ merged = << >>
    /\ refined = << >>
    /\ min_gap = 500
    /\ call = NoCall
    /\ pc = "format"
    /\ speaker_mapping = EmptyMapping
    /\ saved = << >>
    /\ steps = << >>
    /\ NoDiarizeCall

\* stamp = format_timestamp_ms(ft / 1000)
Format ==
    /\ stamp = ""
    /\ stamp' = format_timestamp_ms(ft)
    /\ UNCHANGED avars
    /\ UNCHANGED dvars
    /\ UNCHANGED <<sources, ft>>

NextFmt == Format

SpecFmt == InitFmt /\ [][NextFmt]_vars

---------------------------------------------------------------------------
\* Properties of fusion (checked under Spec).

Fused == pc = "merged"

\* C1: fuse is count- and order-preserving: n transcript segments give
\* exactly n merged segments, and the i-th merged segment carries the
\* start_seconds, end_seconds and text of the i-th transcript segment, for
\* every diarization sequence, the empty one included.
FuseCountAndOrder ==
    Fused =>
        /\ Len(merged) = Len(transcript)
        /\ \A i \in 1..Len(transcript) :
              /\ dicts[merged[i]].start_seconds = transcript[i].start
              /\ dicts[merged[i]].end_seconds = transcript[i].end
              /\ dicts[merged[i]].text = transcript[i].text

FuseCountAndOrderWitness ==
    /\ Fused
    /\ Len(transcript) = 3
    /\ Len(merged) = 3
    /\ Len(diarization) = 2
    /\ transcript[3].start = transcript[3].end

Overlap(T, D) == Max(0, Min(T.end, D.end) - Max(T.start, D.start))

\* The first diarization segment, in diarization order, whose overlap with T
\* is the greatest.
FirstGreatest(T, diar) ==
    CHOOSE j \in 1..Len(diar) :
        /\ \A k \in 1..Len(diar) : Overlap(T, diar[k]) <= Overlap(T, diar[j])
        /\ \A k \in 1..(j - 1) : Overlap(T, diar[k]) < Overlap(T, diar[j])

\* C2: with a non-empty diarization, each transcript segment gets the speaker
\* of the diarization segment of greatest overlap, the first one in
\* diarization order when several reach it.
FuseGreatestOverlapFirst ==
    (Fused /\ Len(diarization) > 0) =>
        \A i \in 1..Len(merged) :
            dicts[merged[i]].speaker =
                diarization[FirstGreatest(transcript[i], diarization)].speaker

\* A = [0, 1 s], B = [1 s, 2 s], T = [0.7 s, 1.3 s]: both overlap T by 0.3 s.
FuseGreatestOverlapFirstWitness ==
    /\ Fused
    /\ Len(diarization) = 2
    /\ diarization[1] = DiarizationSegment(0, 1000, "SPEAKER_1")
    /\ diarization[2] = DiarizationSegment(1000, 2000, "SPEAKER_0")
    /\ \E i \in 1..Len(merged) :
          /\ transcript[i].start = 700
          /\ transcript[i].end = 1300
          /\ dicts[merged[i]].speaker = "SPEAKER_1"

Contained(T, D) == T.start >= D.start /\ T.end <= D.end

\* C3: a transcript segment fully contained within exactly one diarization
\* segment D gets D's speaker, also when the transcript segment has zero
\* length and when D is not the first diarization segment.
FuseContainedGetsContainer ==
    Fused =>
        \A i \in 1..Len(merged) : \A j \in 1..Len(diarization) :
            ( /\ Contained(transcript[i], diarization[j])
              /\ \A k \in 1..Len(diarization) :
                    k # j => ~Contained(transcript[i], diarization[k]) )
            => dicts[merged[i]].speaker = diarization[j].speaker

\* C4: with an empty diarization every merged segment has speaker
\* SPEAKER_0, for any number of transcript segments.
FuseEmptyDiarization ==
    (Fused /\ Len(diarization) = 0) =>
        \A i \in 1..Len(merged) : dicts[merged[i]].speaker = "SPEAKER_0"

FuseEmptyDiarizationWitness ==
    /\ Fused
    /\ Len(diarization) = 0
    /\ Len(merged) = 3
    /\ \A i \in 1..3 : dicts[merged[i]].speaker = "SPEAKER_0"

\* C26: each merged segment's confidence is 1 - no_speech_prob of its
\* transcript segment, 1.0 when the transcript segment has no
\* no_speech_prob, and within [0, 1] whenever no_speech_prob is.
FuseConfidence ==
    Fused =>
        \A i \in 1..Len(merged) :
            LET p == transcript[i].no_speech_prob
                confidence == dicts[merged[i]].confidence
            IN  /\ p = << >> => confidence = 1000
                /\ p # << >> => confidence = 1000 - p[1]
                /\ (p = << >> \/ p[1] \in 0..1000) => confidence \in 0..1000

FuseConfidenceWitness ==
    /\ Fused
    /\ Len(merged) = 3
    /\ transcript[1].no_speech_prob = << >>
    /\ dicts[merged[1]].confidence = 1000
    /\ transcript[2].no_speech_prob = << 250 >>
    /\ dicts[merged[2]].confidence = 750
    /\ dicts[merged[3]].confidence = 500

\* C28: with a non-empty diarization none of whose segments overlaps a
\* transcript segment (it lies in a gap, before the first or after the
\* last diarization segment, or has zero length), the transcript segment
\* gets the speaker of the first diarization segment of the sequence.
FuseNoOverlapGetsFirst ==
    (Fused /\ Len(diarization) > 0) =>
        \A i \in 1..Len(merged) :
            (\A j \in 1..Len(diarization) :
                Overlap(transcript[i], diarization[j]) = 0)
            => dicts[merged[i]].speaker = diarization[1].speaker

\* T = [0, 0.7 s] lies before the only diarization segments, the first of
\* which is SPEAKER_1.
FuseNoOverlapGetsFirstWitness ==
    /\ Fused
    /\ Len(diarization) = 2
    /\ diarization[1] = DiarizationSegment(1000, 2000, "SPEAKER_1")
    /\ diarization[2] = DiarizationSegment(1000, 2000, "SPEAKER_0")
    /\ Len(transcript) = 1
    /\ transcript[1].start = 0
    /\ transcript[1].end = 700
    /\ dicts[merged[1]].speaker = "SPEAKER_1"

---------------------------------------------------------------------------
\* Properties of boundary refinement (checked under Spec).

Called == call.arg # NoneVal

\* C5: refine is idempotent: running it, with the same gap, on the sequence
\* an earlier run returned gives that sequence again, equal in length and in
\* every field of every position.
RefineIdempotent ==
    (Called /\ call.arg = "refined") => call.after = call.before

\* The first pass merged t1 and t2 and kept a third segment of the same
\* speaker apart; the second pass compares that segment with the merged one.
RefineIdempotentWitness ==
    /\ Called
    /\ call.arg = "refined"
    /\ Len(call.before) = 2
    /\ call.before[1].text = "t1 t2"
    /\ call.before[2].speaker = call.before[1].speaker
    /\ Len(call.after) = 2

RECURSIVE JoinText(_, _)
JoinText(X, n) ==
    IF n = 0 THEN ""
    ELSE IF n = 1 THEN X[1].text
    ELSE JoinText(X, n - 1) \o " " \o X[n].text

RECURSIVE ConcatWords(_, _)
ConcatWords(X, n) ==
    IF n = 0 THEN << >> ELSE ConcatWords(X, n - 1) \o X[n].words

\* C6: refine returns a sequence no longer than its input; the space-joined
\* texts of the output equal the space-joined texts of the input, and so do
\* the concatenated words lists.
RefinePreservesContent ==
    Called =>
        /\ Len(call.after) <= Len(call.before)
        /\ JoinText(call.after, Len(call.after))
             = JoinText(call.before, Len(call.before))
        /\ ConcatWords(call.after, Len(call.after))
             = ConcatWords(call.before, Len(call.before))

RefinePreservesContentWitness ==
    /\ pc = "refined"
    /\ Len(call.before) = 3
    /\ Len(call.after) = 2
    /\ call.after[2].text = "t2 t3"

\* Segment i of X starts a new output segment: it is the first, or its
\* speaker differs from its predecessor's, or it starts min_gap or more after
\* its predecessor ends (the running segment's end is the end of the segment
\* merged last, which is the predecessor).
StartsNew(X, i, g) ==
    \/ i = 1
    \/ X[i].speaker # X[i-1].speaker
    \/ X[i].start_seconds - X[i-1].end_seconds >= g

NewIndexes(X, g) == {i \in 1..Len(X) : StartsNew(X, i, g)}

KthNew(X, g, k) ==
    CHOOSE i \in NewIndexes(X, g) :
        Cardinality({j \in NewIndexes(X, g) : j <= i}) = k

LastOfKth(X, g, k) ==
    IF k = Cardinality(NewIndexes(X, g)) THEN Len(X)
    ELSE KthNew(X, g, k + 1) - 1

\* C7: S is merged into the running segment iff it has the running segment's
\* speaker and starts strictly less than min_gap after the running segment's
\* end; otherwise it starts a new output segment.  So the output has one
\* segment per input segment that starts a new one, beginning where that
\* segment begins and ending where the last segment merged into it ends.
RefineMergesIffCloseSameSpeaker ==
    Called =>
        LET X == call.before
            Y == call.after
        IN  /\ Len(Y) = Cardinality(NewIndexes(X, min_gap))
            /\ \A k \in 1..Len(Y) :
                  /\ Y[k].start_seconds = X[KthNew(X, min_gap, k)].start_seconds
                  /\ Y[k].speaker = X[KthNew(X, min_gap, k)].speaker
                  /\ Y[k].end_seconds
                        = X[LastOfKth(X, min_gap, k)].end_seconds

\* Two segments of one speaker 0.3 s apart, min_gap 0.5 s: merged.
RefineMergesIffCloseSameSpeakerWitness ==
    /\ pc = "refined"
    /\ min_gap = 500
    /\ Len(call.before) = 2
    /\ call.before[1].speaker = call.before[2].speaker
    /\ call.before[2].start_seconds - call.before[1].end_seconds = 300
    /\ Len(call.after) = 1
    /\ call.after[1].text = "t1 t2"

\* C29: every output segment of refine covers the input segments merged
\* into it: it starts where the first of them starts and ends no earlier
\* than any of them ends.
RefineCoversMerged ==
    Called =>
        LET X == call.before
            Y == call.after
        IN  \A k \in 1..Len(Y) :
               /\ Y[k].start_seconds = X[KthNew(X, min_gap, k)].start_seconds
               /\ \A i \in KthNew(X, min_gap, k)..LastOfKth(X, min_gap, k) :
                     Y[k].end_seconds >= X[i].end_seconds

\* C30: refine keeps the string and the numeric timestamps consistent: when
\* start and end of every input segment are format_timestamp_ms of
\* start_seconds and end_seconds, so are those of every output segment; a
\* merged segment keeps the speaker, start and confidence of the first
\* segment merged into it.
SpanTimes == UNION { {sp[1], sp[2]} : sp \in TranscriptSpans }

\* format_timestamp_ms of every time a segment can carry, tabulated.
StampOfTime == [t \in SpanTimes |-> format_timestamp_ms(t)]

StampsConsistent(X) ==
    \A i \in 1..Len(X) :
        /\ X[i].start = StampOfTime[X[i].start_seconds]
        /\ X[i].end = StampOfTime[X[i].end_seconds]

RefineKeepsStampsConsistent ==
    (Called /\ StampsConsistent(call.before)) =>
        LET X == call.before
            Y == call.after
        IN  /\ StampsConsistent(Y)
            /\ \A k \in 1..Len(Y) :
                  LET first == X[KthNew(X, min_gap, k)]
                  IN  /\ Y[k].speaker = first.speaker
                      /\ Y[k].start = first.start
                      /\ Y[k].confidence = first.confidence

RefineKeepsStampsConsistentWitness ==
    /\ pc = "refined"
    /\ StampsConsistent(call.before)
    /\ Len(call.before) = 3
    /\ Len(call.after) = 2
    /\ call.after[2].start = "00:00:00.700"
    /\ call.after[2].end = "00:00:01.300"
    /\ call.after[2].end_seconds = 1300
    /\ call.after[2].confidence = 750

\* C8: refine leaves the segments of its input sequence unchanged, so a
\* second call on the same input returns what the first call returned.
RefineLeavesInputUnchanged ==
    /\ Called => call.arg_after = call.before
    /\ (pc = "refined_again" /\ call.arg = "merged")
          => call.after = call.first

\* C9: the transcript is read-only: after fuse, and after fuse followed by
\* refine, every transcript segment's words list is as the ASR handed it
\* over, and each merged segment produced by fuse carries exactly the words
\* of its transcript segment.
TranscriptReadOnly ==
    /\ \A i \in 1..Len(transcript) : lists[transcript[i].words] = WordsOf(i)
    /\ Fused =>
          \A i \in 1..Len(merged) : lists[dicts[merged[i]].words] = WordsOf(i)

---------------------------------------------------------------------------
\* Properties of the pipeline (checked under SpecApp).

Position(step) == CHOOSE i \in 1..Len(steps) : steps[i] = step
Done(step) == \E i \in 1..Len(steps) : steps[i] = step

\* C10: in every run that persists a transcript the steps came in the order
\* diarization, fusion, boundary refinement, name substitution, and the
\* persisted transcript is refined: no two consecutive persisted segments
\* that the refiner (default gap 0.5 s) would have merged.
PipelineRefinesBeforeNames ==
    pc = "done" =>
        /\ Done("diarization") /\ Done("fusion") /\ Done("refinement")
        /\ Done("substitution")
        /\ Position("diarization") < Position("fusion")
        /\ Position("fusion") < Position("refinement")
        /\ Position("refinement") < Position("substitution")
        /\ Cardinality(NewIndexes(saved, 500)) = Len(saved)

\* The sources in the order of the resolver, and the step that queries each.
SourceNames == << "bot", "calendar", "zoom", "teams", "manual" >>
QueryOf == << "query_bot", "query_calendar", "query_zoom", "query_teams",
             "parse_participants" >>

\* Source i returns names when asked (the bot capture is asked only with
\* use_bot_data set).
Returns(i) == sources.names[i] > 0 /\ (i = 1 => sources.use_bot_data)
FirstReturning == {i \in 1..5 : Returns(i) /\ \A j \in 1..(i - 1) : ~Returns(j)}
MappingOf(i) == SourceMapping(SourceNames[i], sources.names[i])

Resolved == pc \in {"manual", "apply", "save", "done", "unmapped"}
MappingFinal == pc \in {"apply", "save", "done", "unmapped"}

\* C21: the resolver asks capture, calendar, platform APIs and the
\* participant string in this order; the final mapping is the mapping of the
\* first source that returns names, and no later source is asked, whatever
\* the number of speakers.
ResolverFirstNonEmptyWins ==
    \A i \in FirstReturning :
        /\ Resolved => \A j \in (i + 1)..5 : ~Done(QueryOf[j])
        /\ MappingFinal => speaker_mapping = MappingOf(i)

\* The k-th distinct speaker label of the merged transcript, in first-seen
\* order.
FirstSeenIndexes ==
    {i \in 1..Len(merged) :
        \A j \in 1..(i - 1) : dicts[merged[j]].speaker # dicts[merged[i]].speaker}
FirstSeen(k) ==
    dicts[merged[CHOOSE i \in FirstSeenIndexes :
                    Cardinality({j \in FirstSeenIndexes : j <= i}) = k]].speaker

\* C22: when the participant string is the chosen source, its i-th name is
\* mapped to the i-th distinct label of the merged transcript in first-seen
\* order, so every key of the mapping is a label of the transcript.
ManualStringMapsFirstSeen ==
    (/\ FirstReturning = {5}
     /\ pc \in {"manual", "apply"}
     /\ ~Done("manual_mapping"))
    => /\ DOMAIN speaker_mapping \subseteq unique_speaker_labels
       /\ \A k \in 1..Min(sources.names[5], Cardinality(FirstSeenIndexes)) :
             /\ FirstSeen(k) \in DOMAIN speaker_mapping
             /\ speaker_mapping[FirstSeen(k)] = Name("manual", k - 1)

\* C23: when the chosen source yields fewer entries than there are speaker
\* labels, the entries it did yield are kept in the mapping that the
\* operator completes.
PartialMappingKeepsEntries ==
    \A i \in FirstReturning :
        (MappingFinal /\ sources.names[i] < unique_speakers) =>
            \A l \in DOMAIN MappingOf(i) :
                /\ l \in DOMAIN speaker_mapping
                /\ speaker_mapping[l] = MappingOf(i)[l]

\* The label fuse gave to merged segment i.
OriginalLabel(i) ==
    find_speaker_at_time(transcript[i].start, transcript[i].end, diarization)

\* C24: names are substituted only when the mapping has an entry for every
\* label of the merged sequence; a segment whose label has no entry keeps
\* its label, and a segment's speaker is rewritten at most once.
NamesSubstitutedOnlyWhenComplete ==
    pc \in {"save", "done"} =>
        /\ (\E i \in 1..Len(merged) :
               dicts[merged[i]].speaker # OriginalLabel(i))
           => \A i \in 1..Len(merged) :
                 OriginalLabel(i) \in DOMAIN speaker_mapping
        /\ \A i \in 1..Len(merged) :
              dicts[merged[i]].speaker =
                  IF OriginalLabel(i) \in DOMAIN speaker_mapping
                  THEN speaker_mapping[OriginalLabel(i)]
                  ELSE OriginalLabel(i)

NamesSubstitutedOnlyWhenCompleteWitness ==
    /\ pc = "save"
    /\ FirstReturning = {2}
    /\ Len(merged) = 2
    /\ OriginalLabel(1) = "SPEAKER_1"
    /\ OriginalLabel(2) = "SPEAKER_0"
    /\ dicts[merged[1]].speaker = "calendar_1"
    /\ dicts[merged[2]].speaker = "calendar_0"

---------------------------------------------------------------------------
\* Properties of the diarizer (checked under SpecDiar).

Attempts(backend) == {i \in 1..Len(ran) : ran[i].backend = backend}
Attempted(backend) == Attempts(backend) # {}
Returned == dpc = "done" /\ outcome.status = "returned"
Raised == dpc = "done" /\ outcome.status = "raised"

\* C11: a call in mode 'pyannote' with pyannote not importable or without
\* HF_TOKEN does not fail: the fallback backend is run and its result is
\* returned (the audio being readable).
PyannoteModeWithoutBackendReturns ==
    (/\ dpc = "done"
     /\ dcall.method = "pyannote"
     /\ ~dcall.available \/ ~dcall.token
     /\ dcall.readable)
    => /\ Attempted("fallback")
       /\ outcome.status = "returned"

\* C12: in mode 'auto' the pyannote backend is attempted if and only if
\* pyannote is importable and HF_TOKEN is present; in every other
\* combination only the fallback backend runs.
AutoAttemptsIffAvailableAndToken ==
    dcall.method = "auto" =>
        /\ Attempted("pyannote") => dcall.available /\ dcall.token
        /\ dpc = "done" =>
              /\ Attempted("pyannote") <=> dcall.available /\ dcall.token
              /\ ~(dcall.available /\ dcall.token) =>
                    /\ Len(ran) = 1
                    /\ ran[1].backend = "fallback"

AutoAttemptsIffAvailableAndTokenWitness ==
    /\ dpc = "done"
    /\ dcall.method = "auto"
    /\ dcall.available /\ dcall.token
    /\ Attempted("pyannote")
    /\ outcome.path = "pyannote"
    /\ Len(outcome.segments) = 2

\* C13: when the pyannote backend raises, the fallback backend is run on
\* the same audio with the same expected speaker count; in one call each
\* backend is entered at most once.
PyannoteRaised ==
    /\ Attempted("pyannote")
    /\ dpc \in {"fallback", "cluster", "done"}
    /\ outcome.path # "pyannote"

PyannoteFailureFallsBack ==
    /\ Cardinality(Attempts("pyannote")) <= 1
    /\ Cardinality(Attempts("fallback")) <= 1
    /\ (PyannoteRaised /\ dpc # "fallback") =>
          /\ Len(ran) = 2
          /\ ran[1].backend = "pyannote"
          /\ ran[2] = [backend |-> "fallback",
                       audio_path |-> dcall.audio_path,
                       num_speakers |-> dcall.num_speakers]

PyannoteFailureFallsBackWitness ==
    /\ dpc = "done"
    /\ PyannoteRaised
    /\ dcall.available
    /\ dcall.num_speakers = << 3 >>
    /\ outcome.path = "clustered"
    /\ Len(outcome.segments) = 3

\* C14: when pydub, or librosa or sklearn, cannot be imported,
\* diarize_fallback returns exactly one SPEAKER_0 segment spanning the whole
\* file: start 0, end and duration the duration of the audio.
DegradedSpansWholeFile ==
    outcome.path = "degraded" =>
        outcome.segments =
            << DiarizationSegment(0, dcall.duration, "SPEAKER_0") >>

\* C15: for readable audio diarize_audio_file returns a sequence and never
\* raises, whatever the method, the expected speaker count and the
\* behaviour of the pyannote backend.
DiarizeNeverRaisesOnReadable ==
    dcall.readable => ~Raised

\* C16: when detect_nonsilent finds no stretch, or every stretch is
\* discarded as too short, the fallback returns the empty sequence without
\* invoking the clusterer and without raising.
Segmented ==
    /\ dpc = "done"
    /\ outcome.path \notin {"pyannote", "degraded", "load"}

NothingRetainedReturnsEmpty ==
    (/\ Segmented
     /\ \A i \in 1..Len(clust.ranges) : ~LongEnough(clust.ranges[i]))
    => /\ outcome.status = "returned"
       /\ outcome.segments = << >>
       /\ ~clust.invoked

NothingRetainedReturnsEmptyWitness ==
    /\ Segmented
    /\ Len(clust.ranges) = 2
    /\ \A i \in 1..Len(clust.ranges) : ~LongEnough(clust.ranges[i])
    /\ outcome.path = "no_features"
    /\ outcome.segments = << >>

\* C17: no interval shorter than 0.3 s is in the fallback's output or given
\* to the clusterer: every returned segment lasts at least 0.3 s, and there
\* are as many feature vectors as retained segments.
ShortIntervalsDiscarded ==
    /\ clust.features = Len(clust.segments)
    /\ \A i \in 1..Len(clust.segments) :
          /\ clust.segments[i].duration >= 300
          /\ clust.segments[i].end - clust.segments[i].start >= 300
    /\ (Returned /\ outcome.path # "pyannote") =>
          \A i \in 1..Len(outcome.segments) :
             /\ outcome.segments[i].duration >= 300
             /\ outcome.segments[i].end - outcome.segments[i].start >= 300

ShortIntervalsDiscardedWitness ==
    /\ Returned
    /\ outcome.path = "clustered"
    /\ Len(clust.ranges) = 3
    /\ \E i \in 1..3 : clust.ranges[i][2] - clust.ranges[i][1] = 300
    /\ Len(outcome.segments) = 2

\* C18: whenever the fallback invokes the clusterer, the cluster count it
\* asks for is at most the number of retained intervals, with the default
\* heuristic and with any caller-supplied count.
WillCluster == dpc = "cluster" /\ clust.features > 1

ClusterCountAtMostIntervals ==
    (clust.invoked \/ WillCluster) => clust.k <= Len(clust.segments)

ClusterCountAtMostIntervalsWitness ==
    /\ Returned
    /\ clust.invoked
    /\ dcall.num_speakers = << >>
    /\ Len(clust.segments) = 3
    /\ clust.k = 2

\* C19: without an expected speaker count the cluster count before capping
\* is 2 for n < 30, n // 10 for 30 <= n < 50 and 5 for n >= 50, n being the
\* number of intervals; a caller-supplied count is used unchanged.
PreCapCountIsClamp ==
    clust.features > 0 =>
        LET n == Len(clust.segments)
        IN  IF dcall.num_speakers = << >>
            THEN clust.requested = (IF n < 30 THEN 2
                                    ELSE IF n < 50 THEN n \div 10
                                    ELSE 5)
            ELSE clust.requested = dcall.num_speakers[1]

PreCapCountIsClampWitness ==
    /\ Returned
    /\ dcall.num_speakers = << >>
    /\ Len(clust.segments) = 39
    /\ clust.requested = 3
    /\ clust.k = 3

\* C20: every sequence diarize_audio_file returns, from either backend and
\* from the degraded path, is ordered by start time, and every label in it
\* is SPEAKER_<index> with a non-negative integer index.
IndexedLabels == {"SPEAKER_" \o ToString(i) : i \in 0..9}

ReturnedOrderedAndIndexed ==
    Returned =>
        /\ \A i \in 1..Len(outcome.segments) :
              i > 1 => outcome.segments[i-1].start <= outcome.segments[i].start
        /\ \A i \in 1..Len(outcome.segments) :
              outcome.segments[i].speaker \in IndexedLabels

---------------------------------------------------------------------------
\* Properties of the timestamp format (checked under SpecFmt).

\* C25: a time of t whole milliseconds is rendered as HH:MM:SS.mmm,
\* zero-padded, with HH = t div 3600000, MM = (t div 60000) mod 60,
\* SS = (t div 1000) mod 60 and mmm = t mod 1000.
TruncatedStamp(t) ==
    Pad2(t \div 3600000) \o ":" \o Pad2((t \div 60000) % 60) \o ":"
        \o Pad2((t \div 1000) % 60) \o "." \o Pad3(t % 1000)

FormatIsTruncatedMillis == stamp # "" => stamp = TruncatedStamp(ft)

====
